---------------------------- MODULE Spec2Model ----------------------------
(***************************************************************************)
(* A model of the Hopalong controller (src/src/hopalong.ts): the curated   *)
(* / randomized selection of orbit parameters, the orbit generator, the    *)
(* pool of particle groups that scrolls through the camera plane, the      *)
(* regeneration timer, the settings facade and teardown.                   *)
(*                                                                         *)
(* Number representation.  The program computes with IEEE doubles; the     *)
(* model computes with integers in fixed point:                            *)
(*   - depths (position.z) and speed are counted in 1/Unit of a scene unit *)
(*     (Unit = 2, so that the key step speedDelta = 0.5 is the integer 1); *)
(*   - rotation and rotationSpeed are counted in thousandths (the key step *)
(*     rotationSpeedDelta = 0.001 is the integer 1);                       *)
(*   - orbit coefficients, raw orbit coordinates, hues, random draws and   *)
(*     camera x/y are counted in thousandths (Milli);                      *)
(*   - a display coordinate is the exact fraction n/d (d = 0 stands for    *)
(*     the non-finite value the program gets from a division by zero).     *)
(* JavaScript arrays are 0-based; sequences here are 1-based, and the      *)
(* catalog cursor keeps the program's 0-based value.                       *)
(***************************************************************************)
EXTENDS Integers, Sequences, FiniteSets, TLC

(***************************************************************************)
(* Program constants                                                       *)
(***************************************************************************)
SCALE_FACTOR == 1500
CAMERA_BOUND == 200
LEVEL_DEPTH == 600
IntervalMs == 3000

\* fixed-point denominators
Unit == 2
Milli == 1000

\* speedDelta = 0.5 and rotationSpeedDelta = 0.001 in the model's units
speedDelta == 1
rotationSpeedDelta == 1

\* constraints of the randomized parameters, in thousandths
constraints ==
    [a |-> [min |-> -30 * Milli, max |-> 30 * Milli],
     b |-> [min |-> 200,         max |-> 1800],
     c |-> [min |-> 5 * Milli,   max |-> 17 * Milli],
     d |-> [min |-> 0,           max |-> 10 * Milli],
     e |-> [min |-> 0,           max |-> 12 * Milli]]

(***************************************************************************)
(* util/defaults (not part of the sources at hand): the default bundle.    *)
(* speed = 2 and levels = 3 are the values of the specification's          *)
(* end-to-end scenario.                                                    *)
(***************************************************************************)
defaults_speed == 2 * Unit
defaults_rotation_speed == 5
defaults_fov == 60
defaults_saturation == 800
defaults_brightness == 1000

(***************************************************************************)
(* The instance under check: advancedSettings of the constructor.          *)
(***************************************************************************)
numLevels == 3
numSubsets == 2
numPointsSubset == 2

Levels == 0 .. (numLevels - 1)
Subsets == 0 .. (numSubsets - 1)
Keys == Levels \X Subsets

(***************************************************************************)
(* Bounds of the model                                                     *)
(***************************************************************************)
\* length of the curated catalog best_frames.json
CatalogLen == 2
\* selections (calls of shuffleParams) explored
MaxSelections == 4
\* frames explored by Spec
MaxFrames == 5
\* listener notifications explored by Spec
MaxListenerCalls == 3
\* ratings explored by Spec
MaxRatings == 1
\* listener notifications explored by SpecSettings
MaxSettingsCalls == 4
\* frames explored by SpecScroll
MaxScrollFrames == 1000
\* SpecCamera: the frames during which the pointer moves, and the frames
\* explored
PointerFrames == 3
MaxCameraFrames == 30
\* frames explored by SpecDepth
MaxDepthFrames == 5
\* SpecLive: the selections and listener notifications explored, the frames
\* during which ticks and changes of speed happen, and the frames explored
MaxLiveSelections == 2
MaxLiveCalls == 2
TickFrames == 2
MaxLiveFrames == 1000

(***************************************************************************)
(* Arithmetic helpers                                                      *)
(***************************************************************************)
Abs(n) == IF n < 0 THEN -n ELSE n

Min2(m, n) == IF m < n THEN m ELSE n

RECURSIVE SqrtSearch(_, _, _)
SqrtSearch(n, lo, hi) ==
    IF lo >= hi THEN lo
    ELSE LET mid == (lo + hi + 1) \div 2
         IN  IF mid * mid <= n THEN SqrtSearch(n, mid, hi)
             ELSE SqrtSearch(n, lo, mid - 1)

\* floor of the square root of an integer
ISqrt(n) == SqrtSearch(n, 0, 46340)

\* Math.sqrt on thousandths: sqrt(m/1000)*1000 = sqrt(m*1000), truncated
MathSqrt(m) == ISqrt(m * Milli)

\* Math.log on thousandths (m >= 1000): ln 2 = 0.693 per halving, and the
\* secant of ln on [1, 2) for the remainder
RECURSIVE MathLog(_)
MathLog(m) ==
    IF m >= 2 * Milli THEN 693 + MathLog(m \div 2)
    ELSE ((m - Milli) * 693) \div Milli

(***************************************************************************)
(* util/color hsvToHsl (not part of the sources at hand): the standard     *)
(* conversion, on thousandths.  The hue is kept; lightness and saturation  *)
(* are recomputed.                                                         *)
(***************************************************************************)
hsvToHsl(h, s, v) ==
    LET l == (v * (2 * Milli - s)) \div (2 * Milli)
        m == Min2(l, Milli - l)
        sl == IF m = 0 THEN 0 ELSE ((v - l) * Milli) \div m
    IN  <<h, sl, l>>

\* materials.color.setHSL(...hsvToHsl(hue, defaults.saturation, defaults.brightness))
setHSL(hue) == hsvToHsl(hue, defaults_saturation, defaults_brightness)

(***************************************************************************)
(* util/best_frames.json (not part of the sources at hand): the curated    *)
(* catalog, an array of records with a params field.  The entries are      *)
(* pairwise distinct and within the constraints; entry i was created at    *)
(* time 10*i, before the session starts.                                   *)
(***************************************************************************)
CatalogParams(i) ==
    [a |-> (7 * i - 10) * Milli,
     b |-> 200 + 300 * i,
     c |-> (5 + i) * Milli,
     d |-> i * Milli,
     e |-> 2 * i * Milli,
     choice |-> (300 * i) % Milli,
     xPreset |-> 500,
     yPreset |-> 250,
     timeCreated |-> 10 * i]

best_frames == [i \in 1 .. CatalogLen |-> [params |-> CatalogParams(i)]]

\* the field initializer of orbitParams, stamped Date.now()
ZeroParams(t) ==
    [a |-> 0, b |-> 0, c |-> 0, d |-> 0, e |-> 0,
     choice |-> 0, xPreset |-> 0, yPreset |-> 0, timeCreated |-> t]

(***************************************************************************)
(* shuffleParams.  Math.random() draws are thousandths in 0 .. 999, given  *)
(* by rnd; t is Date.now().  The result holds the index used to read the   *)
(* catalog, the cursor afterwards, whether reading .params of a missing    *)
(* entry threw, and the new orbitParams and history (unchanged on throw,   *)
(* since the assignment and the push are never reached).                   *)
(***************************************************************************)
\* best_frames[ currentFrame > length ? currentFrame = 0 : currentFrame++ ]
CursorIndex(cf) == IF cf > Len(best_frames) THEN 0 ELSE cf

CursorAfter(cf) == IF cf > Len(best_frames) THEN 0 ELSE cf + 1

\* a randomized selection that scales each draw by max instead of max - min
RandomParamsUnscaled(rnd, t) ==
    LET Draw(k, r) == k.min + (r * k.max) \div Milli
    IN  [a |-> Draw(constraints.a, rnd.a),
         b |-> Draw(constraints.b, rnd.b),
         c |-> Draw(constraints.c, rnd.c),
         d |-> Draw(constraints.d, rnd.d),
         e |-> Draw(constraints.e, rnd.e),
         choice |-> rnd.choice,
         xPreset |-> rnd.xPreset,
         yPreset |-> rnd.yPreset,
         timeCreated |-> t]

RandomParams(rnd, t) ==
    LET Draw(k, r) == k.min + (r * (k.max - k.min)) \div Milli
    IN  [a |-> Draw(constraints.a, rnd.a),
         b |-> Draw(constraints.b, rnd.b),
         c |-> Draw(constraints.c, rnd.c),
         d |-> Draw(constraints.d, rnd.d),
         e |-> Draw(constraints.e, rnd.e),
         choice |-> rnd.choice,
         xPreset |-> rnd.xPreset,
         yPreset |-> rnd.yPreset,
         timeCreated |-> t]

shuffleParams(cf, vibe, cur, hist, rnd, t) ==
    IF vibe
    THEN LET idx == CursorIndex(cf)
             missing == idx >= Len(best_frames)
             sel == IF missing THEN cur ELSE best_frames[idx + 1].params
         IN  [index |-> idx,
              currentFrame |-> CursorAfter(cf),
              threw |-> missing,
              orbitParams |-> sel,
              orbitParamHistory |-> IF missing THEN hist ELSE Append(hist, sel)]
    ELSE LET sel == RandomParams(rnd, t)
         IN  [index |-> -1,
              currentFrame |-> cf,
              threw |-> FALSE,
              orbitParams |-> sel,
              orbitParamHistory |-> Append(hist, sel)]

(***************************************************************************)
(* generateOrbit (after prepareOrbit's selection): the recurrence, the     *)
(* running bounding box and the normalization pass.                        *)
(***************************************************************************)
\* z of the iteration formula, by the thresholds on choice
IterationZ(p, x) ==
    LET m == Abs((p.b * x) \div Milli - p.c)
    IN  IF p.choice < 500 THEN p.d + MathSqrt(m)
        ELSE IF p.choice < 750 THEN p.d + MathSqrt(MathSqrt(m))
        ELSE p.d + MathLog(2 * Milli + MathSqrt(m))

\* a step that updates x first and computes y from the new x
IterationStepNewX(p, x, y) ==
    LET z == IterationZ(p, x)
        x1 == IF x > 0 THEN y - z ELSE IF x = 0 THEN y ELSE y + z
    IN  [x |-> x1 + p.e, y |-> p.a - (x1 + p.e)]

\* one step of the recurrence: the new (x, y)
IterationStep(p, x, y) ==
    LET z == IterationZ(p, x)
        x1 == IF x > 0 THEN y - z ELSE IF x = 0 THEN y ELSE y + z
    IN  [x |-> x1 + p.e, y |-> p.a - x]

\* the running min/max update of one recorded point
TrackBounds(box, x, y) ==
    LET bx == IF x < box.xMin THEN [box EXCEPT !.xMin = x]
              ELSE IF x > box.xMax THEN [box EXCEPT !.xMax = x]
              ELSE box
    IN  IF y < bx.yMin THEN [bx EXCEPT !.yMin = y]
        ELSE IF y > bx.yMax THEN [bx EXCEPT !.yMax = y]
        ELSE bx

\* let xMin = 0, xMax = 0, yMin = 0, yMax = 0
InitialBounds == [xMin |-> 0, xMax |-> 0, yMin |-> 0, yMax |-> 0]

\* the starting point of subset s: s * 0.005 * (0.5 - preset * (Math.random() / 2))
SubsetStart(s, preset, r) == (s * 5 * (500 - (preset * r) \div (2 * Milli))) \div Milli

\* the inner loop: points i .. numPointsSubset-1 of one subset, from (x, y)
RECURSIVE IteratePoints(_, _, _, _, _)
IteratePoints(p, i, x, y, acc) ==
    IF i >= numPointsSubset THEN acc
    ELSE LET n == IterationStep(p, x, y)
         IN  IteratePoints(p, i + 1, n.x, n.y,
                 [points |-> Append(acc.points, [x |-> n.x, y |-> n.y]),
                  box |-> TrackBounds(acc.box, n.x, n.y)])

\* the outer loop: subsets s .. n-1 of the n subsets, the bounding box carried
\* along
RECURSIVE IterateSubsets(_, _, _, _, _, _)
IterateSubsets(n, p, s, rx, ry, acc) ==
    IF s >= n THEN acc
    ELSE LET run == IteratePoints(p, 0,
                        SubsetStart(s, p.xPreset, rx[s]),
                        SubsetStart(s, p.yPreset, ry[s]),
                        [points |-> <<>>, box |-> acc.box])
         IN  IterateSubsets(n, p, s + 1, rx, ry,
                 [subsets |-> Append(acc.subsets, run.points), box |-> run.box])

\* scale * (raw - min) - SCALE_FACTOR with scale = 2 * SCALE_FACTOR / (max - min),
\* as the fraction n/d; d = 0 is the non-finite result of the division by zero
Normalize(raw, lo, hi) ==
    [n |-> 2 * SCALE_FACTOR * (raw - lo) - SCALE_FACTOR * (hi - lo), d |-> hi - lo]

\* generateOrbit of a controller with n subsets
generateOrbitOf(n, p, rx, ry) ==
    LET raw == IterateSubsets(n, p, 0, rx, ry, [subsets |-> <<>>, box |-> InitialBounds])
        box == raw.box
    IN  [subsets |->
             [s \in 1 .. n |->
                 [i \in 1 .. numPointsSubset |->
                     LET pt == raw.subsets[s][i]
                     IN  [x |-> pt.x, y |-> pt.y,
                          vertex |-> [x |-> Normalize(pt.x, box.xMin, box.xMax),
                                      y |-> Normalize(pt.y, box.yMin, box.yMax)]]]],
         xMin |-> box.xMin, xMax |-> box.xMax,
         yMin |-> box.yMin, yMax |-> box.yMax,
         scaleX |-> [n |-> 2 * SCALE_FACTOR * Milli, d |-> box.xMax - box.xMin],
         scaleY |-> [n |-> 2 * SCALE_FACTOR * Milli, d |-> box.yMax - box.yMin]]

generateOrbit(p, rx, ry) == generateOrbitOf(numSubsets, p, rx, ry)

\* initOrbit, and the field initializer of orbit: every point at the origin
initOrbit ==
    [subsets |->
         [s \in 1 .. numSubsets |->
             [i \in 1 .. numPointsSubset |->
                 [x |-> 0, y |-> 0,
                  vertex |-> [x |-> [n |-> 0, d |-> 1], y |-> [n |-> 0, d |-> 1]]]]],
     xMin |-> 0, xMax |-> 0, yMin |-> 0, yMax |-> 0,
     scaleX |-> [n |-> 0, d |-> 1], scaleY |-> [n |-> 0, d |-> 1]]

(***************************************************************************)
(* State                                                                   *)
(***************************************************************************)
VARIABLES
    pc,                \* "init": init(canvas) has returned, the constructor's
                       \* animate() and listener registration are still to run;
                       \* "running": the constructor has returned
    now,               \* Date.now()
    orbitParams,       \* the active parameter set
    orbitParamHistory, \* the history log
    currentFrame,      \* the catalog cursor (0-based)
    vibeCheck,         \* curated mode
    readIndex,         \* index of the latest catalog read (-1: randomized)
    selections,        \* number of calls of shuffleParams so far
    hueValues,         \* hue of each subset
    orbit,             \* the shared point cloud and its bounding box
    particleSets,      \* the pool, by (level, subset)
    speed,
    rotationSpeed,
    mouseLocked,
    cameraFov,
    cameraX,           \* camera.position.x, y (thousandths)
    cameraY,
    mouseX,
    mouseY,
    timerActive,       \* the setInterval of updateOrbit is scheduled
    rafPending,        \* a requestAnimationFrame callback is scheduled
    destroyed,
    frames,            \* calls of renderer.render (the frames stats counts)
    listenerCalls,     \* calls of onSettingsUpdate
    lastSnapshot,      \* the snapshot of the latest call
    ratings,           \* App's ratings, one per addRating
    lastCall           \* the handler that ran last, and its argument

poolVars == <<particleSets, frames, cameraX, cameraY>>
orbitVars == <<orbitParams, orbitParamHistory, currentFrame, readIndex, selections,
               hueValues, orbit, now>>
settingsVars == <<speed, rotationSpeed, mouseLocked, cameraFov, vibeCheck>>
listenerVars == <<listenerCalls, lastSnapshot>>
lifeVars == <<pc, timerActive, rafPending, destroyed>>
vars == <<poolVars, orbitVars, settingsVars, listenerVars, lifeVars,
          mouseX, mouseY, ratings, lastCall>>

\* the record of a call
Call(op, arg) == [op |-> op, arg |-> arg]

(***************************************************************************)
(* init(canvas): the pool                                                  *)
(***************************************************************************)
\* camera.position.set(0, 0, SCALE_FACTOR / 2): never moved in z
CameraZ == (SCALE_FACTOR * Unit) \div 2

\* initial depths staggered by level only
InitialDepthByLevel(k, s) == -LEVEL_DEPTH * Unit * k + CameraZ

\* -LEVEL_DEPTH * k - (s * LEVEL_DEPTH) / numSubsets + SCALE_FACTOR / 2
InitialDepth(k, s) ==
    -LEVEL_DEPTH * Unit * k - (s * LEVEL_DEPTH * Unit) \div numSubsets + CameraZ

\* -(numLevels - 1) * LEVEL_DEPTH
ResetDepth == -(numLevels - 1) * LEVEL_DEPTH * Unit

NewParticleSet(k, s, hues, params) ==
    [myLevel |-> k,
     mySubset |-> s,
     z |-> InitialDepth(k, s),
     rotation |-> 0,
     needsUpdate |-> FALSE,
     verticesNeedUpdate |-> FALSE,
     color |-> setHSL(hues[s]),
     params |-> params]

\* getSettings
getSettings(sp, rs, ml, fov, vibe) ==
    [speed |-> sp, rotationSpeed |-> rs, mouseLocked |-> ml,
     cameraFov |-> fov, vibeCheck |-> vibe]

(***************************************************************************)
(* Math.random() draws (thousandths) and the clock                         *)
(***************************************************************************)
\* generateHues: the hue tables drawn (the subsets get different hues)
HueTables == {[s \in Subsets |-> (h + 150 * s) % Milli] : h \in {100, 600}}

\* the draws of the subsets' starting points
SeedDraws == {0, 800}
NoSeeds == [s \in Subsets |-> 0]

\* the draws of a curated selection are not read
NoDraws ==
    [a |-> 0, b |-> 0, c |-> 0, d |-> 0, e |-> 0,
     choice |-> 0, xPreset |-> 0, yPreset |-> 0]

\* the draws of a randomized selection: all low, all high, mixed
ParamDraws ==
    {[a |-> r, b |-> r, c |-> q, d |-> q, e |-> r,
      choice |-> q, xPreset |-> r, yPreset |-> q] : r, q \in {0, 500, 999}}

\* Date.now() when the controller is constructed
StartTime == 1000

(***************************************************************************)
(* Init: the state when init(canvas) has returned.  generateOrbit has made *)
(* the first selection, generateHues has drawn the hues, and every group   *)
(* has been created unflagged with the active params.                      *)
(***************************************************************************)
InitWith(rx, ry, hues) ==
    LET sh == shuffleParams(0, TRUE, ZeroParams(StartTime), <<>>, NoDraws, StartTime)
    IN  /\ pc = "init"
        /\ now = StartTime
        /\ vibeCheck = TRUE
        /\ selections = 1
        /\ readIndex = sh.index
        /\ currentFrame = sh.currentFrame
        /\ orbitParams = sh.orbitParams
        /\ orbitParamHistory = sh.orbitParamHistory
        /\ orbit = generateOrbit(sh.orbitParams, rx, ry)
        /\ hueValues = hues
        /\ particleSets =
               [g \in Keys |-> NewParticleSet(g[1], g[2], hues, sh.orbitParams)]
        /\ speed = defaults_speed
        /\ rotationSpeed = defaults_rotation_speed
        /\ mouseLocked = FALSE
        /\ cameraFov = defaults_fov
        /\ cameraX = 0
        /\ cameraY = 0
        /\ mouseX = 0
        /\ mouseY = 0
        /\ timerActive = TRUE
        /\ rafPending = FALSE
        /\ destroyed = FALSE
        /\ frames = 0
        /\ listenerCalls = 0
        /\ lastSnapshot = getSettings(0, 0, FALSE, 0, FALSE)
        /\ ratings = <<>>
        /\ lastCall = Call("init", 0)

Init == \E hues \in HueTables : InitWith(NoSeeds, NoSeeds, hues)

(***************************************************************************)
(* render                                                                  *)
(***************************************************************************)
\* an easing that moves 5% of the way and does not clamp
EaseAxisUnclamped(c, target) == c + ((target * Milli - c) * 5) \div 100

\* one axis of the camera easing: 5% of the way to the target, then clamped;
\* skipped when the camera is outside the square
EaseAxis(c, target) ==
    LET bound == CAMERA_BOUND * Milli
        moved == c + ((target * Milli - c) * 5) \div 100
    IN  IF c >= -bound /\ c <= bound
        THEN IF moved < -bound THEN -bound
             ELSE IF moved > bound THEN bound
             ELSE moved
        ELSE c

\* a crossing test that also fires at the camera plane itself
PassedCameraInclusive(z) == z >= CameraZ

\* if (particles.position.z > this.camera.position.z)
PassedCamera(z) == z > CameraZ

\* a repaint that clears the flag and does not record the params
RepaintWithoutParams(ps) ==
    [ps EXCEPT !.verticesNeedUpdate = TRUE,
               !.color = setHSL(hueValues[ps.mySubset]),
               !.needsUpdate = FALSE]

\* a repaint that clears the flag and forgets the colour
RepaintWithoutColour(ps) ==
    [ps EXCEPT !.verticesNeedUpdate = TRUE,
               !.needsUpdate = FALSE,
               !.params = orbitParams]

\* the repaint of a flagged group at its crossing
Repaint(ps) ==
    [ps EXCEPT !.verticesNeedUpdate = TRUE,
               !.color = setHSL(hueValues[ps.mySubset]),
               !.needsUpdate = FALSE,
               !.params = orbitParams]

\* a recycling that files the group under the level it is sent back to
RecycleIntoLastLevel(ps) ==
    LET back == [ps EXCEPT !.z = ResetDepth, !.myLevel = numLevels - 1]
    IN  IF ps.needsUpdate THEN Repaint(back) ELSE back

\* the group moved back in front of the camera
Recycle(ps) ==
    LET back == [ps EXCEPT !.z = ResetDepth]
    IN  IF ps.needsUpdate THEN Repaint(back) ELSE back

\* a loop body that turns the group and leaves its depth alone
AdvanceGroupTurningOnly(ps) ==
    [ps EXCEPT !.rotation = ps.rotation + rotationSpeed]

\* the body of the loop over the pool, for one group
AdvanceGroup(ps) ==
    LET moved == [ps EXCEPT !.z = ps.z + speed,
                            !.rotation = ps.rotation + rotationSpeed]
    IN  IF PassedCamera(moved.z) THEN Recycle(moved) ELSE moved

render ==
    /\ cameraX' = EaseAxis(cameraX, mouseX)
    /\ cameraY' = EaseAxis(cameraY, -mouseY)
    /\ particleSets' = [g \in Keys |-> AdvanceGroup(particleSets[g])]
    /\ frames' = frames + 1

(***************************************************************************)
(* animate: a frame callback.  A destroyed controller returns at once and  *)
(* requests no further frame.                                              *)
(***************************************************************************)
\* a frame callback without the destroyed guard
AnimateBodyUnguarded == rafPending' = TRUE /\ render

AnimateBody ==
    IF destroyed
    THEN rafPending' = FALSE /\ UNCHANGED poolVars
    ELSE rafPending' = TRUE /\ render

Animate ==
    /\ pc = "running"
    /\ rafPending
    /\ AnimateBody
    /\ lastCall' = Call("animate", 0)
    /\ UNCHANGED <<orbitVars, settingsVars, listenerVars, pc, timerActive, destroyed,
                   mouseX, mouseY, ratings>>

(***************************************************************************)
(* fireSettingsChange, given the settings after the mutation               *)
(***************************************************************************)
\* a notification that carries the settings as they were before the mutation
NotifyStale(n, sp, rs, ml, fov) ==
    /\ lastSnapshot' = getSettings(speed, rotationSpeed, mouseLocked, cameraFov, vibeCheck)
    /\ listenerCalls' = listenerCalls + n

\* n calls of the listener in a row, the last with the settings given
Notify(n, sp, rs, ml, fov) ==
    /\ lastSnapshot' = getSettings(sp, rs, ml, fov, vibeCheck)
    /\ listenerCalls' = listenerCalls + n

fireSettingsChange(sp, rs, ml, fov) == Notify(1, sp, rs, ml, fov)

(***************************************************************************)
(* The tail of the constructor: animate() runs the first frame at once,    *)
(* then the listener is registered and notified.                           *)
(***************************************************************************)
Construct ==
    /\ pc = "init"
    /\ pc' = "running"
    /\ AnimateBody
    /\ fireSettingsChange(speed, rotationSpeed, mouseLocked, cameraFov)
    /\ lastCall' = Call("constructor", 0)
    /\ UNCHANGED <<orbitVars, settingsVars, timerActive, destroyed,
                   mouseX, mouseY, ratings>>

(***************************************************************************)
(* updateOrbit: the regeneration tick.  When shuffleParams throws, the     *)
(* tick ends there: the cursor has moved, nothing else has changed.        *)
(***************************************************************************)
\* a tick that also marks the vertices of every group for update at once
FlagAllAndRefresh(pool) ==
    [g \in Keys |-> [pool[g] EXCEPT !.needsUpdate = TRUE,
                                    !.verticesNeedUpdate = TRUE]]

FlagAll(pool) == [g \in Keys |-> [pool[g] EXCEPT !.needsUpdate = TRUE]]

updateOrbit(rnd, rx, ry, hues) ==
    LET t == now + IntervalMs
        sh == shuffleParams(currentFrame, vibeCheck, orbitParams,
                            orbitParamHistory, rnd, t)
    IN  /\ now' = t
        /\ selections' = selections + 1
        /\ readIndex' = sh.index
        /\ currentFrame' = sh.currentFrame
        /\ orbitParams' = sh.orbitParams
        /\ orbitParamHistory' = sh.orbitParamHistory
        /\ IF sh.threw
           THEN UNCHANGED <<orbit, hueValues, particleSets>>
           ELSE /\ orbit' = generateOrbit(sh.orbitParams, rx, ry)
                /\ hueValues' = hues
                /\ particleSets' = FlagAll(particleSets)

UpdateOrbitWith(seeds, hueSet) ==
    /\ pc = "running"
    /\ timerActive
    /\ \E rx \in seeds, ry \in seeds, hues \in hueSet :
           IF vibeCheck
           THEN updateOrbit(NoDraws, rx, ry, hues)
           ELSE \E rnd \in ParamDraws : updateOrbit(rnd, rx, ry, hues)
    /\ lastCall' = Call("updateOrbit", 0)
    /\ UNCHANGED <<frames, cameraX, cameraY, settingsVars, listenerVars, lifeVars,
                   mouseX, mouseY, ratings>>

(***************************************************************************)
(* destroy                                                                 *)
(***************************************************************************)
Destroy ==
    /\ pc = "running"
    /\ timerActive' = FALSE
    /\ destroyed' = TRUE
    /\ lastCall' = Call("destroy", 0)
    /\ UNCHANGED <<poolVars, orbitVars, settingsVars, listenerVars, pc, rafPending,
                   mouseX, mouseY, ratings>>

(***************************************************************************)
(* The settings facade.  Every operation is given as the handler's whole   *)
(* effect, its notification included.                                      *)
(***************************************************************************)
\* what the settings operations leave alone
NotSettings == <<particleSets, frames, orbitVars, vibeCheck, lifeVars, ratings>>

\* a changeSpeed that forgets the clamp
UnclampedSpeed(newSpeed) == newSpeed

\* if (newSpeed >= 0) speed = newSpeed; else speed = 0
ClampedSpeed(newSpeed) == IF newSpeed >= 0 THEN newSpeed ELSE 0

changeSpeed(delta) ==
    /\ pc = "running"
    /\ speed' = ClampedSpeed(speed + delta)
    /\ fireSettingsChange(speed', rotationSpeed, mouseLocked, cameraFov)
    /\ lastCall' = Call("changeSpeed", delta)
    /\ UNCHANGED <<rotationSpeed, mouseLocked, cameraFov, cameraX, cameraY,
                   mouseX, mouseY, NotSettings>>

changeRotationSpeed(delta) ==
    /\ pc = "running"
    /\ rotationSpeed' = rotationSpeed + delta
    /\ fireSettingsChange(speed, rotationSpeed', mouseLocked, cameraFov)
    /\ lastCall' = Call("changeRotationSpeed", delta)
    /\ UNCHANGED <<speed, mouseLocked, cameraFov, cameraX, cameraY,
                   mouseX, mouseY, NotSettings>>

\* setMouseLock(locked?): toggles when no argument is given
MouseLockAfter(given, locked) == IF given THEN locked ELSE ~mouseLocked

setMouseLock(given, locked) ==
    /\ pc = "running"
    /\ mouseLocked' = MouseLockAfter(given, locked)
    /\ fireSettingsChange(speed, rotationSpeed, mouseLocked', cameraFov)
    /\ lastCall' = Call("setMouseLock", 0)
    /\ UNCHANGED <<speed, rotationSpeed, cameraFov, cameraX, cameraY,
                   mouseX, mouseY, NotSettings>>

\* recenterCamera: camera and pointer to the origin, then setMouseLock()
recenterCamera ==
    /\ pc = "running"
    /\ cameraX' = 0
    /\ cameraY' = 0
    /\ mouseX' = 0
    /\ mouseY' = 0
    /\ mouseLocked' = MouseLockAfter(FALSE, FALSE)
    /\ fireSettingsChange(speed, rotationSpeed, mouseLocked', cameraFov)
    /\ lastCall' = Call("recenterCamera", 0)
    /\ UNCHANGED <<speed, rotationSpeed, cameraFov, NotSettings>>

setCameraFOV(fov) ==
    /\ pc = "running"
    /\ cameraFov' = fov
    /\ fireSettingsChange(speed, rotationSpeed, mouseLocked, cameraFov')
    /\ lastCall' = Call("setCameraFOV", fov)
    /\ UNCHANGED <<speed, rotationSpeed, mouseLocked, cameraX, cameraY,
                   mouseX, mouseY, NotSettings>>

\* applySettings(patch): patch.has is the set of fields that are not undefined.
\* A cameraFov field goes through setCameraFOV, which notifies once more.
applySettings(patch) ==
    /\ pc = "running"
    /\ speed' = IF "speed" \in patch.has THEN patch.speed ELSE speed
    /\ rotationSpeed' =
           IF "rotationSpeed" \in patch.has THEN patch.rotationSpeed ELSE rotationSpeed
    /\ mouseLocked' =
           IF "mouseLocked" \in patch.has THEN patch.mouseLocked ELSE mouseLocked
    /\ cameraFov' = IF "cameraFov" \in patch.has THEN patch.cameraFov ELSE cameraFov
    /\ Notify(IF "cameraFov" \in patch.has THEN 2 ELSE 1,
              speed', rotationSpeed', mouseLocked', cameraFov')
    /\ lastCall' = Call("applySettings", Cardinality(patch.has))
    /\ UNCHANGED <<cameraX, cameraY, mouseX, mouseY, NotSettings>>

resetDefaults ==
    /\ pc = "running"
    /\ speed' = defaults_speed
    /\ rotationSpeed' = defaults_rotation_speed
    /\ cameraFov' = defaults_fov
    /\ fireSettingsChange(speed', rotationSpeed', mouseLocked, cameraFov')
    /\ lastCall' = Call("resetDefaults", 0)
    /\ UNCHANGED <<mouseLocked, cameraX, cameraY, mouseX, mouseY, NotSettings>>

\* onKeyDown; the H key (cursor visibility of the page) changes nothing here
KeyCommands == {"ArrowUp", "ArrowDown", "ArrowLeft", "ArrowRight", "R", "L", "C"}

onKeyDown(key) ==
    CASE key = "ArrowUp" -> changeSpeed(speedDelta)
      [] key = "ArrowDown" -> changeSpeed(-speedDelta)
      [] key = "ArrowLeft" -> changeRotationSpeed(rotationSpeedDelta)
      [] key = "ArrowRight" -> changeRotationSpeed(-rotationSpeedDelta)
      [] key = "R" -> resetDefaults
      [] key = "L" -> setMouseLock(FALSE, FALSE)
      [] key = "C" -> recenterCamera

\* onDocumentMouseMove / onDocumentTouch with one touch: the pointer relative
\* to the window centre; ignored while the pointer is locked
onDocumentMouseMove(x, y) ==
    /\ pc = "running"
    /\ mouseX' = IF mouseLocked THEN mouseX ELSE x
    /\ mouseY' = IF mouseLocked THEN mouseY ELSE y
    /\ lastCall' = Call("onDocumentMouseMove", 0)
    /\ UNCHANGED <<cameraX, cameraY, settingsVars, listenerVars, NotSettings>>

(***************************************************************************)
(* getCurrentOrbitParams, called by App's addRating.  The pool is sorted   *)
(* with a comparator that answers 1 when a is older than b and -1          *)
(* otherwise (also for equal or missing timestamps), and the params of the *)
(* last element are returned.  The order of the array is not part of the   *)
(* model (no loop over the pool depends on it); what is modelled is which  *)
(* group can end last: with a missing timestamp in the pool the comparator *)
(* orders nothing reliably and any group can; otherwise the array ends     *)
(* with a group of the smallest timestamp.                                 *)
(***************************************************************************)
Comparator(a, b) ==
    IF a.params.timeCreated = 0 \/ b.params.timeCreated = 0 THEN -1
    ELSE IF a.params.timeCreated < b.params.timeCreated THEN 1 ELSE -1

\* g can be the last element of the sorted pool
CanSortLast(pool, g) ==
    \/ \E h \in Keys : pool[h].params.timeCreated = 0
    \/ \A h \in Keys : h # g => Comparator(pool[h], pool[g]) < 0

getCurrentOrbitParams(pool) ==
    {pool[g].params : g \in {k \in Keys : CanSortLast(pool, k)}}

addRating(rating) ==
    /\ pc = "running"
    /\ \E params \in getCurrentOrbitParams(particleSets) :
           ratings' = Append(ratings, [rating |-> rating, params |-> params])
    /\ lastCall' = Call("addRating", rating)
    /\ UNCHANGED <<poolVars, orbitVars, settingsVars, listenerVars, lifeVars,
                   mouseX, mouseY>>

(***************************************************************************)
(* Spec: the animation cycle.  Frames, regeneration ticks, teardown,       *)
(* ratings and the host's speed patches, in any order.                     *)
(***************************************************************************)
NoPatch ==
    [has |-> {}, speed |-> 0, rotationSpeed |-> 0, mouseLocked |-> FALSE, cameraFov |-> 0]

\* one group spacing per frame, and a stop
SpeedPatches ==
    {[NoPatch EXCEPT !.has = {"speed"}, !.speed = v * Unit] : v \in {300, 0}}

FrameTick == (frames < MaxFrames \/ destroyed) /\ Animate

RegenerationTick ==
    selections < MaxSelections /\ UpdateOrbitWith({NoSeeds}, HueTables)

SpeedPatch ==
    /\ listenerCalls < MaxListenerCalls
    /\ \E patch \in SpeedPatches : applySettings(patch)

AddRating == Len(ratings) < MaxRatings /\ addRating(1)

Next ==
    \/ Construct
    \/ FrameTick
    \/ RegenerationTick
    \/ Destroy
    \/ SpeedPatch
    \/ AddRating

Spec == Init /\ [][Next]_vars

(***************************************************************************)
(* SpecSettings: the settings facade alone.  After the constructor, key    *)
(* commands, direct calls of changeSpeed, settings patches of the host,    *)
(* setCameraFOV, setMouseLock and pointer moves, in any order.             *)
(***************************************************************************)
\* the deltas of direct changeSpeed calls: more than the default speed down,
\* and up
SpeedDeltas == {-9, 3}

\* a reverse scroll, a stop, a reversed spin, a new field of view together
\* with a pointer lock, and the empty patch
HostPatches ==
    {[NoPatch EXCEPT !.has = {"speed"}, !.speed = v * Unit] : v \in {-1, 0}}
    \cup {[NoPatch EXCEPT !.has = {"rotationSpeed"}, !.rotationSpeed = -3],
          [NoPatch EXCEPT !.has = {"cameraFov", "mouseLocked"},
                          !.cameraFov = 90, !.mouseLocked = TRUE],
          NoPatch}

PointerMoves == {<<300, -40>>}

MoreCalls == listenerCalls < MaxSettingsCalls

KeyDown == MoreCalls /\ \E key \in KeyCommands : onKeyDown(key)

ChangeSpeed == MoreCalls /\ \E delta \in SpeedDeltas : changeSpeed(delta)

ApplySettings == MoreCalls /\ \E patch \in HostPatches : applySettings(patch)

SetCameraFOV == MoreCalls /\ setCameraFOV(75)

SetMouseLock == MoreCalls /\ \E locked \in BOOLEAN : setMouseLock(TRUE, locked)

MouseMove == \E m \in PointerMoves : onDocumentMouseMove(m[1], m[2])

NextSettings ==
    \/ Construct
    \/ KeyDown
    \/ ChangeSpeed
    \/ ApplySettings
    \/ SetCameraFOV
    \/ SetMouseLock
    \/ MouseMove

SpecSettings == Init /\ [][NextSettings]_vars

(***************************************************************************)
(* SpecScroll: the scroll at constant speed.  After the constructor the    *)
(* host may set another speed once, before any further frame; from then on *)
(* only frames run.                                                        *)
(***************************************************************************)
\* 0.5, 3.5 (the distances to the camera are no multiples of it) and 300
ScrollSpeeds == {1, 7, 300 * Unit}

ScrollPatch ==
    /\ frames = 1
    /\ listenerCalls = 1
    /\ \E v \in ScrollSpeeds :
           applySettings([NoPatch EXCEPT !.has = {"speed"}, !.speed = v])

ScrollFrame == frames < MaxScrollFrames /\ Animate

NextScroll ==
    \/ Construct
    \/ ScrollPatch
    \/ ScrollFrame

SpecScroll == Init /\ [][NextScroll]_vars

(***************************************************************************)
(* SpecOrbit: generateOrbit as a function of the selected params and of    *)
(* the draws of the starting points.  The initial states hold the params   *)
(* (as prepareOrbit leaves them) and the orbit of initOrbit; the one       *)
(* action runs the rest of generateOrbit.                                  *)
(***************************************************************************)
OrbitInputs ==
    {[a |-> a * Milli, b |-> 1000, c |-> 5 * Milli, d |-> d * Milli, e |-> e * Milli,
      choice |-> ch, xPreset |-> 500, yPreset |-> 250, timeCreated |-> StartTime] :
        a \in {-3, 0, 10, 30}, d \in {0, 1}, e \in {0, 5, 12}, ch \in {300, 600, 900}}

InitOrbit ==
    \E p \in OrbitInputs, hues \in HueTables :
        /\ pc = "generate"
        /\ now = StartTime
        /\ vibeCheck = TRUE
        /\ selections = 1
        /\ readIndex = 0
        /\ currentFrame = 1
        /\ orbitParams = p
        /\ orbitParamHistory = <<p>>
        /\ orbit = initOrbit
        /\ hueValues = hues
        /\ particleSets = [g \in Keys |-> NewParticleSet(g[1], g[2], hues, p)]
        /\ speed = defaults_speed
        /\ rotationSpeed = defaults_rotation_speed
        /\ mouseLocked = FALSE
        /\ cameraFov = defaults_fov
        /\ cameraX = 0
        /\ cameraY = 0
        /\ mouseX = 0
        /\ mouseY = 0
        /\ timerActive = FALSE
        /\ rafPending = FALSE
        /\ destroyed = FALSE
        /\ frames = 0
        /\ listenerCalls = 0
        /\ lastSnapshot = getSettings(0, 0, FALSE, 0, FALSE)
        /\ ratings = <<>>
        /\ lastCall = Call("prepareOrbit", 0)

GenerateOrbit ==
    /\ pc = "generate"
    /\ pc' = "generated"
    /\ \E rx \in [Subsets -> SeedDraws], ry \in [Subsets -> SeedDraws] :
           orbit' = generateOrbit(orbitParams, rx, ry)
    /\ lastCall' = Call("generateOrbit", 0)
    /\ UNCHANGED <<poolVars, orbitParams, orbitParamHistory, currentFrame, readIndex,
                   selections, hueValues, now, settingsVars, listenerVars,
                   timerActive, rafPending, destroyed, mouseX, mouseY, ratings>>

NextOrbit == GenerateOrbit

SpecOrbit == InitOrbit /\ [][NextOrbit]_vars

(***************************************************************************)
(* SpecSingleSubset: generateOrbit of a controller constructed with        *)
(* subsetCount = 1, whose only subset starts at the origin.  The initial   *)
(* states hold the params and the orbit of initOrbit; the pool has one     *)
(* group per level.                                                        *)
(***************************************************************************)
SingleSubset == {0}

InitSingleSubset ==
    \E p \in OrbitInputs, hue \in {100, 600} :
        /\ pc = "generate"
        /\ now = StartTime
        /\ vibeCheck = TRUE
        /\ selections = 1
        /\ readIndex = 0
        /\ currentFrame = 1
        /\ orbitParams = p
        /\ orbitParamHistory = <<p>>
        /\ orbit = [initOrbit EXCEPT !.subsets = <<initOrbit.subsets[1]>>]
        /\ hueValues = [s \in SingleSubset |-> hue]
        /\ particleSets =
               [g \in Levels \X SingleSubset |->
                   NewParticleSet(g[1], g[2], [s \in SingleSubset |-> hue], p)]
        /\ speed = defaults_speed
        /\ rotationSpeed = defaults_rotation_speed
        /\ mouseLocked = FALSE
        /\ cameraFov = defaults_fov
        /\ cameraX = 0
        /\ cameraY = 0
        /\ mouseX = 0
        /\ mouseY = 0
        /\ timerActive = FALSE
        /\ rafPending = FALSE
        /\ destroyed = FALSE
        /\ frames = 0
        /\ listenerCalls = 0
        /\ lastSnapshot = getSettings(0, 0, FALSE, 0, FALSE)
        /\ ratings = <<>>
        /\ lastCall = Call("prepareOrbit", 0)

GenerateSingleSubset ==
    /\ pc = "generate"
    /\ pc' = "generated"
    /\ \E rx \in [SingleSubset -> SeedDraws], ry \in [SingleSubset -> SeedDraws] :
           orbit' = generateOrbitOf(1, orbitParams, rx, ry)
    /\ lastCall' = Call("generateOrbit", 0)
    /\ UNCHANGED <<poolVars, orbitParams, orbitParamHistory, currentFrame, readIndex,
                   selections, hueValues, now, settingsVars, listenerVars,
                   timerActive, rafPending, destroyed, mouseX, mouseY, ratings>>

NextSingleSubset == GenerateSingleSubset

SpecSingleSubset == InitSingleSubset /\ [][NextSingleSubset]_vars

(***************************************************************************)
(* SpecCamera: the camera easing.  After the constructor: frames, pointer  *)
(* or touch events during the first frames (far outside the square on both *)
(* axes, or inside it) and recenterCamera at any time.                     *)
(***************************************************************************)
CameraTargets == {<<5000, -5000>>, <<-300, 40>>}

CameraFrame == frames < MaxCameraFrames /\ Animate

CameraPointer ==
    /\ frames < PointerFrames
    /\ \E m \in CameraTargets : onDocumentMouseMove(m[1], m[2])

CameraRecenter == MoreCalls /\ recenterCamera

NextCamera ==
    \/ Construct
    \/ CameraFrame
    \/ CameraPointer
    \/ CameraRecenter

SpecCamera == Init /\ [][NextCamera]_vars

(***************************************************************************)
(* SpecShuffle: parameter selection in both modes.  vibeCheck is a public  *)
(* field that the constructor sets to true; the randomized branch of       *)
(* shuffleParams runs once the host has assigned false to it.  After the   *)
(* constructor: regeneration ticks with every draw low, middle or high,    *)
(* and assignments of the field, in any order.                             *)
(***************************************************************************)
\* hopalong.vibeCheck = v, assigned by the host: no listener is called
SetVibeCheck(v) ==
    /\ pc = "running"
    /\ vibeCheck' = v
    /\ lastCall' = Call("vibeCheck", IF v THEN 1 ELSE 0)
    /\ UNCHANGED <<poolVars, orbitVars, speed, rotationSpeed, mouseLocked, cameraFov,
                   listenerVars, lifeVars, mouseX, mouseY, ratings>>

SwitchMode == SetVibeCheck(~vibeCheck)

SelectionTick ==
    /\ selections < MaxSelections
    /\ UpdateOrbitWith({NoSeeds}, {hueValues})

NextShuffle ==
    \/ Construct
    \/ SwitchMode
    \/ SelectionTick

SpecShuffle == Init /\ [][NextShuffle]_vars

(***************************************************************************)
(* SpecDepth: the scroll under changes of speed.  After the constructor:   *)
(* frames, regeneration ticks, applySettings with a speed below zero, zero *)
(* or above the spacing of two groups, and changeSpeed by a delta that     *)
(* lifts the default speed above that spacing, in any order.               *)
(***************************************************************************)
DepthSpeeds == {-1 * Unit, 0, 400 * Unit}

DepthDeltas == {398 * Unit}

DepthFrame == frames < MaxDepthFrames /\ Animate

DepthTick ==
    /\ selections < MaxSelections
    /\ UpdateOrbitWith({NoSeeds}, {hueValues})

DepthPatch ==
    /\ listenerCalls < MaxListenerCalls
    /\ \E v \in DepthSpeeds :
           applySettings([NoPatch EXCEPT !.has = {"speed"}, !.speed = v])

DepthChangeSpeed ==
    /\ listenerCalls < MaxListenerCalls
    /\ \E delta \in DepthDeltas : changeSpeed(delta)

NextDepth ==
    \/ Construct
    \/ DepthFrame
    \/ DepthTick
    \/ DepthPatch
    \/ DepthChangeSpeed

SpecDepth == Init /\ [][NextDepth]_vars

(***************************************************************************)
(* SpecLive: the animation cycle under fair scheduling of the frames.      *)
(* animate() requests the next frame at its end and the browser runs every *)
(* requested frame, so a frame that stays enabled is eventually taken; the *)
(* controller is not destroyed.  Regeneration ticks and changeSpeed (up to *)
(* one group spacing per frame, and down past zero, where it clamps) come  *)
(* during the first frames; the frames then run on for more than a full    *)
(* lap at the default speed.                                               *)
(***************************************************************************)
LiveDeltas == {-9, 298 * Unit}

LiveFrame == frames < MaxLiveFrames /\ Animate

LiveTick ==
    /\ frames < TickFrames
    /\ selections < MaxLiveSelections
    /\ UpdateOrbitWith({NoSeeds}, HueTables \ {hueValues})

LiveChangeSpeed ==
    /\ frames < TickFrames
    /\ listenerCalls < MaxLiveCalls
    /\ \E delta \in LiveDeltas : changeSpeed(delta)

NextLive ==
    \/ Construct
    \/ LiveFrame
    \/ LiveTick
    \/ LiveChangeSpeed

SpecLive == Init /\ [][NextLive]_vars /\ WF_vars(LiveFrame)

(***************************************************************************)
(* Claims checked under Spec                                               *)
(***************************************************************************)
\* a frame was rendered in this step, and group g passed the camera in it
CrossesInStep(g) ==
    /\ frames' = frames + 1
    /\ PassedCamera(particleSets[g].z + speed)

\* C1: a group that crosses the camera plane in a frame leaves the frame with
\* its repaint flag clear; and in every step in which a group's flag goes from
\* set to clear, the group crosses in that step, is sent to the back, has its
\* vertices marked for update, takes the colour of the current hue of its
\* subset and records the current orbit params.  The flag is cleared in no
\* other step.
C1_RepaintAtCrossing ==
    [][\A g \in Keys :
          /\ CrossesInStep(g) => ~particleSets'[g].needsUpdate
          /\ (particleSets[g].needsUpdate /\ ~particleSets'[g].needsUpdate) =>
                 /\ CrossesInStep(g)
                 /\ particleSets'[g].z = ResetDepth
                 /\ particleSets'[g].verticesNeedUpdate
                 /\ particleSets'[g].color = setHSL(hueValues'[g[2]])
                 /\ particleSets'[g].params = orbitParams']_vars

\* a frame has just repainted a group with the params of a later selection,
\* while another group is still flagged
C1_Witness ==
    /\ lastCall.op = "animate"
    /\ \E g, h \in Keys :
          /\ particleSets[g].verticesNeedUpdate
          /\ ~particleSets[g].needsUpdate
          /\ particleSets[g].z = ResetDepth
          /\ particleSets[g].params = orbitParams
          /\ particleSets[g].params # best_frames[1].params
          /\ particleSets[h].needsUpdate

\* C2: in curated mode the n-th selection returns catalog entry (n-1) mod K:
\* entries 0 .. K-1 in order, then entry 0 again, with period K.
C2_CuratedCyclic ==
    vibeCheck =>
        orbitParams = best_frames[((selections - 1) % CatalogLen) + 1].params

\* C3: in curated mode every selection reads the catalog at an index within
\* 0 .. K-1.
C3_IndexInRange == vibeCheck => readIndex \in 0 .. (CatalogLen - 1)

\* C4: the params returned to addRating are, among the params recorded on the
\* groups, those with the greatest creation timestamp.
C4_ReturnsLatest ==
    lastCall.op = "addRating" =>
        \A g \in Keys :
            particleSets[g].params.timeCreated
                <= ratings[Len(ratings)].params.timeCreated

\* C9: once destroyed, no regeneration tick runs, the pool, the frame count and
\* the orbit data never change, no frame is requested, and a frame callback
\* that fires returns without rendering and leaves no request pending.
C9_NothingAfterDestroy ==
    [][destroyed =>
          /\ destroyed'
          /\ lastCall'.op # "updateOrbit"
          /\ UNCHANGED <<particleSets, frames, orbitVars>>
          /\ rafPending' => rafPending
          /\ lastCall'.op = "animate" => (~rafPending' /\ UNCHANGED poolVars)]_vars

\* a frame callback requested before destroy has fired after it, at a point
\* where further frames and regeneration ticks were still to come
C9_Witness ==
    /\ destroyed
    /\ lastCall.op = "animate"
    /\ ~rafPending
    /\ frames < MaxFrames
    /\ selections < MaxSelections

(***************************************************************************)
(* Claims checked under SpecSettings                                       *)
(***************************************************************************)
\* C5: a call changeSpeed(delta) leaves speed at speed + delta when that sum
\* is at least 0, and at exactly 0 when the sum is negative.
C5_ChangeSpeedClamps ==
    [][lastCall'.op = "changeSpeed" =>
          speed' = IF speed + lastCall'.arg >= 0 THEN speed + lastCall'.arg ELSE 0]_vars

\* a decrease by more than any speed reached before it has left speed at 0,
\* and the listener has been told
C5_Witness ==
    /\ lastCall = Call("changeSpeed", -9)
    /\ speed = 0
    /\ lastSnapshot.speed = 0
    /\ listenerCalls = 2

\* C6: speed is never negative, whatever settings operations have run.
C6_SpeedNonNegative == speed >= 0

\* C8: once the constructor has returned, the snapshot last delivered to the
\* listener equals the current settings; and every settings operation calls
\* the listener, the last time with the settings it leaves behind.
SettingsOperations ==
    {"changeSpeed", "changeRotationSpeed", "setMouseLock", "recenterCamera",
     "applySettings", "setCameraFOV", "resetDefaults"}

C8_ListenerCurrent ==
    /\ [](pc = "running" =>
             lastSnapshot = getSettings(speed, rotationSpeed, mouseLocked,
                                        cameraFov, vibeCheck))
    /\ [][lastCall'.op \in SettingsOperations =>
             /\ listenerCalls' > listenerCalls
             /\ lastSnapshot' = getSettings(speed', rotationSpeed', mouseLocked',
                                            cameraFov', vibeCheck')]_vars

\* a patch with a field of view and a pointer lock has been applied after
\* other operations had changed speed and spin, and the listener holds all
\* of it
C8_Witness ==
    /\ lastCall = Call("applySettings", 2)
    /\ cameraFov = 90
    /\ mouseLocked
    /\ speed # defaults_speed
    /\ rotationSpeed # defaults_rotation_speed
    /\ lastSnapshot = getSettings(speed, rotationSpeed, TRUE, 90, vibeCheck)
    /\ listenerCalls = 5

(***************************************************************************)
(* Claims checked under SpecScroll                                         *)
(***************************************************************************)
\* the frame count from which the speed has been constant, and the depth of
\* group g at that point: the initial depth when the default speed was kept,
\* the depth after the constructor's frame when the host set another one
ScrollOrigin == IF speed = defaults_speed THEN 0 ELSE 1

ScrollStart(g) ==
    LET d0 == InitialDepth(g[1], g[2])
    IN  IF speed = defaults_speed THEN d0
        ELSE IF d0 + defaults_speed > CameraZ THEN ResetDepth
        ELSE d0 + defaults_speed

\* C7: at constant speed v > 0 a group that starts at depth start, at or
\* before the camera, is at start + t*v after t frames for every
\* t <= (camera - start)/v, so that it is exactly at the camera after
\* (camera - start)/v frames when v divides the distance; in the next frame
\* it crosses and is at exactly -(numLevels-1)*LEVEL_DEPTH, whatever the
\* overshoot; and from there it laps with the same rule.
C7_ScrollTiming ==
    (pc = "running" /\ speed > 0 /\ (frames > 1 \/ speed = defaults_speed)) =>
        \A g \in Keys :
            LET t == frames - ScrollOrigin
                n == (CameraZ - ScrollStart(g)) \div speed
                lap == (CameraZ - ResetDepth) \div speed + 1
                z == particleSets[g].z
            IN  /\ t <= n => z = ScrollStart(g) + t * speed
                /\ t = n + 1 => z = ResetDepth
                /\ t > n => z = ResetDepth + ((t - n - 1) % lap) * speed

\* speed 2, three levels: the level-0/subset-0 group, which started at the
\* camera depth 750, was reset to -1200 in the first frame and has advanced
\* 150 frames since; the level-0/subset-1 group, which started at 450, was
\* at 750 after 150 frames and has just been reset to -1200 in frame 151
C7_Witness ==
    /\ speed = 2 * Unit
    /\ numLevels = 3
    /\ frames = 151
    /\ particleSets[<<0, 0>>].z = (-1200 + 150 * 2) * Unit
    /\ particleSets[<<0, 1>>].z = -1200 * Unit

(***************************************************************************)
(* Claims checked under SpecOrbit                                          *)
(***************************************************************************)
RawPoints == {orbit.subsets[s][i] : s \in 1 .. numSubsets, i \in 1 .. numPointsSubset}

\* C10: the bounding box of a generated orbit is the minimum and the maximum
\* of the raw coordinates of all points of all subsets, so that a point with
\* the smallest raw x (y) is displayed at -SCALE_FACTOR and one with the
\* largest at +SCALE_FACTOR.
C10_BoundingBoxExact ==
    pc = "generated" =>
        /\ \E pt \in RawPoints : pt.x = orbit.xMin
        /\ \E pt \in RawPoints : pt.x = orbit.xMax
        /\ \E pt \in RawPoints : pt.y = orbit.yMin
        /\ \E pt \in RawPoints : pt.y = orbit.yMax
        /\ \A pt \in RawPoints :
              /\ (\A q \in RawPoints : pt.x <= q.x) =>
                     pt.vertex.x.n = -SCALE_FACTOR * pt.vertex.x.d
              /\ (\A q \in RawPoints : pt.x >= q.x) =>
                     pt.vertex.x.n = SCALE_FACTOR * pt.vertex.x.d
              /\ (\A q \in RawPoints : pt.y <= q.y) =>
                     pt.vertex.y.n = -SCALE_FACTOR * pt.vertex.y.d
              /\ (\A q \in RawPoints : pt.y >= q.y) =>
                     pt.vertex.y.n = SCALE_FACTOR * pt.vertex.y.d

(***************************************************************************)
(* Further claims checked under Spec                                       *)
(***************************************************************************)
\* C12: the pool always holds exactly numLevels * numSubsets groups, and for
\* each (level, subset) exactly one group carries that key: no frame,
\* regeneration tick, settings operation or query adds, removes or re-keys a
\* group.
C12_PoolFixed ==
    /\ Cardinality(DOMAIN particleSets) = numLevels * numSubsets
    /\ \A k \in Levels, s \in Subsets :
           Cardinality({g \in DOMAIN particleSets :
                           /\ particleSets[g].myLevel = k
                           /\ particleSets[g].mySubset = s}) = 1

\* a query has just run after regeneration ticks, frames and a settings
\* operation, and a group has been sent to the back and repainted
C12_Witness ==
    /\ lastCall.op = "addRating"
    /\ selections >= 2
    /\ frames >= 2
    /\ listenerCalls >= 2
    /\ \E g \in Keys : particleSets[g].verticesNeedUpdate

\* C13: the history log has one entry per selection performed, in either
\* mode: its length equals the number of selections, and its last entry is
\* the active orbit params.
C13_HistoryPerSelection ==
    /\ Len(orbitParamHistory) = selections
    /\ orbitParamHistory[Len(orbitParamHistory)] = orbitParams

\* C16: every regeneration tick selects new orbit params (logged as the last
\* entry of the history), regenerates the orbit from them and leaves every
\* group of the pool flagged for repaint.
C16_TickCompletes ==
    [][lastCall'.op = "updateOrbit" =>
          /\ orbitParamHistory' = Append(orbitParamHistory, orbitParams')
          /\ \E hues \in HueTables : hueValues' = hues
          /\ \A g \in Keys : particleSets'[g].needsUpdate]_vars

\* C17: a regeneration tick leaves the depth, the rotation, the applied
\* colour, the recorded params and the vertex-update mark of every group as
\* they were; of a group it changes the repaint flag only.
C17_TickRepaintsNothing ==
    [][lastCall'.op = "updateOrbit" =>
          \A g \in Keys :
              particleSets'[g] =
                  [particleSets[g] EXCEPT !.needsUpdate = particleSets'[g].needsUpdate]]_vars

\* a tick has just replaced the orbit params and the hues and flagged every
\* group, while the groups still show the colours and record the params of
\* before, one of them at the depth it has scrolled to
C17_Witness ==
    /\ lastCall.op = "updateOrbit"
    /\ orbitParams = orbitParamHistory[selections]
    /\ \A g \in Keys :
           /\ particleSets[g].needsUpdate
           /\ particleSets[g].params # orbitParams
           /\ ~particleSets[g].verticesNeedUpdate
    /\ \E g \in Keys :
           /\ particleSets[g].color # setHSL(hueValues[g[2]])
           /\ particleSets[g].z # InitialDepth(g[1], g[2])

\* C20: in every state reached by frames and regeneration ticks in any
\* order, a group whose repaint flag is clear records the active orbit
\* params; so a group that records the params of an older generation is
\* flagged.
C20_UnflaggedIsCurrent ==
    \A g \in Keys :
        ~particleSets[g].needsUpdate => particleSets[g].params = orbitParams

\* after a tick that replaced the params and a later tick whose selection
\* failed, a frame has repainted one group, which is unflagged and records
\* the active params, while another group still records the first params
\* and is flagged
C20_Witness ==
    /\ selections = CatalogLen + 1
    /\ readIndex = CatalogLen
    /\ orbitParams # best_frames[1].params
    /\ \E g, h \in Keys :
           /\ ~particleSets[g].needsUpdate
           /\ particleSets[g].params = orbitParams
           /\ particleSets[h].needsUpdate
           /\ particleSets[h].params = best_frames[1].params

(***************************************************************************)
(* Claims checked under SpecShuffle                                        *)
(***************************************************************************)
\* C11: every parameter set that a randomized selection produces has a in
\* [-30, 30], b in [0.2, 1.8], c in [5, 17], d in [0, 10], e in [0, 12] and
\* choice, xPreset, yPreset in [0, 1), whatever the draws.
C11_RandomizedWithinConstraints ==
    (lastCall.op = "updateOrbit" /\ readIndex = -1) =>
        /\ \A k \in {"a", "b", "c", "d", "e"} :
               /\ constraints[k].min <= orbitParams[k]
               /\ orbitParams[k] <= constraints[k].max
        /\ \A k \in {"choice", "xPreset", "yPreset"} :
               0 <= orbitParams[k] /\ orbitParams[k] < Milli

\* a randomized selection whose draws for a, b, e were the highest and whose
\* draws for c, d the lowest
C11_Witness ==
    /\ lastCall.op = "updateOrbit"
    /\ readIndex = -1
    /\ orbitParams.b = 200 + (999 * 1600) \div Milli
    /\ orbitParams.a = -30 * Milli + (999 * 60 * Milli) \div Milli
    /\ orbitParams.c = 5 * Milli
    /\ orbitParams.d = 0

\* g comes before h in lexicographic (level, subset) order
Before(g, h) == g[1] < h[1] \/ (g[1] = h[1] /\ g[2] < h[2])

\* the depth of group g by the formula of the claim; the second definition
\* states it multiplied out, with no rounding of the subset's share of a level
StaggeredDepth(g) ==
    CameraZ - LEVEL_DEPTH * Unit * g[1] - (g[2] * LEVEL_DEPTH * Unit) \div numSubsets

AtStaggeredDepth(g, z) ==
    numSubsets * (CameraZ - LEVEL_DEPTH * Unit * g[1] - z) = g[2] * LEVEL_DEPTH * Unit

\* the distance scrolled so far: the constructor's frame at the default
\* speed, the frames since at the speed set right after it
Travelled == IF frames = 0 THEN 0 ELSE defaults_speed + (frames - 1) * speed

\* group g has passed the camera: it is behind where scrolling alone would
\* have taken it from its initial depth
HasCrossed(g) == particleSets[g].z < StaggeredDepth(g) + Travelled

\* C19: when init has returned, every group is unflagged and at depth
\* camera - LEVEL_DEPTH*k - s*LEVEL_DEPTH/numSubsets; these depths are
\* pairwise distinct, none is beyond the camera, and they strictly decrease
\* in lexicographic (level, subset) order; and at constant positive speed no
\* group passes the camera before a group that comes before it in that
\* order.
C19_InitialStagger ==
    /\ pc = "init" =>
           /\ \A g \in Keys :
                  /\ ~particleSets[g].needsUpdate
                  /\ particleSets[g].z = StaggeredDepth(g)
                  /\ AtStaggeredDepth(g, particleSets[g].z)
                  /\ particleSets[g].z <= CameraZ
           /\ \A g, h \in Keys :
                  /\ g # h => particleSets[g].z # particleSets[h].z
                  /\ Before(g, h) => particleSets[g].z > particleSets[h].z
    /\ (pc = "running" /\ speed > 0) =>
           \A g, h \in Keys : (Before(g, h) /\ HasCrossed(h)) => HasCrossed(g)

\* at the default speed the groups of level 0 and the first group of level 1
\* have passed the camera, the second group of level 1 and level 2 have not
C19_Witness ==
    /\ pc = "running"
    /\ speed = defaults_speed
    /\ frames = 400
    /\ particleSets[<<1, 0>>].z < CameraZ - LEVEL_DEPTH * Unit
    /\ particleSets[<<1, 1>>].z > CameraZ - LEVEL_DEPTH * Unit
    /\ particleSets[<<2, 0>>].z > CameraZ - LEVEL_DEPTH * Unit

(***************************************************************************)
(* Claims checked under SpecDepth                                          *)
(***************************************************************************)
DepthRange == ResetDepth .. CameraZ

\* C21: after every completed frame, every group's depth lies between the
\* reset depth -(numLevels - 1) * LEVEL_DEPTH and the camera depth, whatever
\* frames, regeneration ticks and settings operations came before.
C21_DepthInRange ==
    pc = "running" => \A g \in Keys : particleSets[g].z \in DepthRange

\* C22: no two distinct groups are ever at the same depth.
C22_DepthsDistinct ==
    \A g, h \in Keys : g # h => particleSets[g].z # particleSets[h].z

(***************************************************************************)
(* Claims checked under SpecLive                                           *)
(***************************************************************************)
Flagged(g) == particleSets[g].needsUpdate

\* the group shows the latest regeneration
Shown(g) ==
    /\ ~particleSets[g].needsUpdate
    /\ particleSets[g].params = orbitParams
    /\ particleSets[g].color = setHSL(hueValues[particleSets[g].mySubset])

ClampedApproach(c, target) ==
    LET bound == CAMERA_BOUND * Milli
        v == c + ((target * Milli - c) * 5) \div 100
    IN  IF v < -bound THEN -bound ELSE IF v > bound THEN bound ELSE v

\* C18: camera x and camera y always lie within [-CAMERA_BOUND,
\* CAMERA_BOUND], whatever the pointer target; and a frame moves each
\* coordinate 5% of the way to its target (the pointer's x, minus the
\* pointer's y) and then clamps it to that interval.
C18_CameraBounded ==
    /\ [](/\ cameraX \in -CAMERA_BOUND * Milli .. CAMERA_BOUND * Milli
          /\ cameraY \in -CAMERA_BOUND * Milli .. CAMERA_BOUND * Milli)
    /\ [][frames' = frames + 1 =>
              /\ cameraX' = ClampedApproach(cameraX, mouseX)
              /\ cameraY' = ClampedApproach(cameraY, -mouseY)]_vars

\* the camera has been recentred, the pointer has then moved far outside the
\* square, and a frame has brought the camera to the corner of the square
C18_Witness ==
    /\ lastCall.op = "animate"
    /\ listenerCalls >= 3
    /\ mouseX = 5000
    /\ cameraX = CAMERA_BOUND * Milli
    /\ cameraY = CAMERA_BOUND * Milli

(***************************************************************************)
(* Further claims checked under SpecOrbit                                  *)
(***************************************************************************)
\* z of the three branches, each adding d
BranchZ(n, x) ==
    LET m == Abs((orbitParams.b * x) \div Milli - orbitParams.c)
    IN  orbitParams.d +
            CASE n = 1 -> MathSqrt(m)
              [] n = 2 -> MathSqrt(MathSqrt(m))
              [] n = 3 -> MathLog(2 * Milli + MathSqrt(m))

\* the point recorded after (x, y) is (x', y') as the recurrence is stated
IsSuccessor(x, y, next) ==
    LET z == IF orbitParams.choice < 500 THEN BranchZ(1, x)
             ELSE IF orbitParams.choice < 750 THEN BranchZ(2, x)
             ELSE BranchZ(3, x)
    IN  /\ next.y = orbitParams.a - x
        /\ next.x = orbitParams.e +
                        (CASE x > 0 -> y - z
                           [] x = 0 -> y
                           [] x < 0 -> y + z)

\* C15: in a generated orbit every recorded point follows from the point
\* before it by one step of the recurrence: y' = a - x with the old x, and
\* x' = (y - z) + e, y + e or (y + z) + e as x is positive, zero or negative,
\* with z of the branch that choice selects; the first point of the first
\* subset follows in the same way from the origin.
C15_RecurrenceStep ==
    pc = "generated" =>
        /\ IsSuccessor(0, 0, orbit.subsets[1][1])
        /\ \A s \in DOMAIN orbit.subsets :
               \A i \in DOMAIN orbit.subsets[s] :
                   i > 1 => IsSuccessor(orbit.subsets[s][i - 1].x,
                                        orbit.subsets[s][i - 1].y,
                                        orbit.subsets[s][i])

\* an orbit of the third branch in which one recorded point has x = 0 and
\* another x < 0, each followed by a further point
C15_Witness ==
    /\ pc = "generated"
    /\ orbitParams.choice >= 750
    /\ orbitParams.d > 0
    /\ orbit.subsets[1][1].x = 0
    /\ orbit.subsets[2][1].x < 0
    /\ orbit.subsets[2][2].y = orbitParams.a - orbit.subsets[2][1].x

(***************************************************************************)
(* Claims checked under SpecSingleSubset                                   *)
(***************************************************************************)
\* C14: no generated orbit stores a non-finite display coordinate: a zero
\* span of the bounding box on an axis is replaced by a safe span, so every
\* vertex coordinate and both scales are finite.
C14_NoNonFiniteCoordinate ==
    pc = "generated" =>
        /\ orbit.scaleX.d # 0
        /\ orbit.scaleY.d # 0
        /\ \A s \in DOMAIN orbit.subsets : \A i \in DOMAIN orbit.subsets[s] :
               /\ orbit.subsets[s][i].vertex.x.d # 0
               /\ orbit.subsets[s][i].vertex.y.d # 0

=============================================================================
